---- MODULE Spec2Model ----
(***************************************************************************)
(* Model of the chat-log parser of app.py (section 3, "PARSE CHAT DATA"):  *)
(* the compiled header pattern, the line-by-line loop that fills           *)
(* `messages`, and the post-pass that builds `df`, converts its date       *)
(* column and drops the rows whose date is NaT.                            *)
(*                                                                         *)
(* Text is modelled by TLA+ strings, one character at a time; the regular  *)
(* expression is modelled by what a backtracking matcher does with it.     *)
(***************************************************************************)
EXTENDS Integers, Sequences, FiniteSets, TLC

VARIABLES chat_data, i, pc, messages, df

vars == <<chat_data, i, pc, messages, df>>

\* Largest number of lines in an uploaded file that the model explores.
MaxLines == 3

-----------------------------------------------------------------------------
(* Characters and str.strip()                                              *)

Min(a, b) == IF a < b THEN a ELSE b

\* s[p] of Python, with "" standing for "past the end of the string".
At(s, p) == IF p >= 1 /\ p <= Len(s) THEN SubSeq(s, p, p) ELSE ""

\* A character class: the characters in chars, or all the others when neg.
Class(neg, chars) == [neg |-> neg, chars |-> chars]

InClass(c, cls) == c # "" /\ ((c \in cls.chars) # cls.neg)

\* \s, also what str.strip() removes
Space == Class(FALSE, {" ", "\t", "\n", "\r", "\f"})

\* \d
Digit == Class(FALSE, {"0", "1", "2", "3", "4", "5", "6", "7", "8", "9"})

\* Number of consecutive characters of class cls at s[p..], at most max.
Run(s, p, cls, max) ==
    LET cap == Min(max, Len(s) - p + 1)
    IN  IF cap <= 0 THEN 0
        ELSE CHOOSE n \in 0..cap :
                /\ \A k \in 0..(n - 1) : InClass(At(s, p + k), cls)
                /\ n = cap \/ ~InClass(At(s, p + n), cls)

\* Number of consecutive characters of class cls at the end of s.
RunBack(s, cls) ==
    CHOOSE n \in 0..Len(s) :
        /\ \A k \in 0..(n - 1) : InClass(At(s, Len(s) - k), cls)
        /\ n = Len(s) \/ ~InClass(At(s, Len(s) - n), cls)

\* str.strip(): the text without its leading and trailing whitespace.
Strip(s) ==
    LET lead == Run(s, 1, Space, Len(s))
        rest == SubSeq(s, lead + 1, Len(s))
    IN  SubSeq(rest, 1, Len(rest) - RunBack(rest, Space))

-----------------------------------------------------------------------------
\* pattern = re.compile(
\*   r"^(\d{1,2}/\d{1,2}/\d{2,4}),\s*(\d{1,2}:\d{2}\s?[ap]m)\s*-\s*([^:]+):\s*(.*)$")
\*
\* The pattern is the sequence of its atoms, each a character class repeated
\* between lo and hi times (any number of times when many).  No flag is given
\* to re.compile, so letters match case-sensitively and "." does not match a
\* newline.  The groups are runs of atoms: 1..5, 8..13, 17 and 20.

Rep(cls, lo, hi) == [cls |-> cls, lo |-> lo, hi |-> hi, many |-> FALSE]

Star(cls) == [cls |-> cls, lo |-> 0, hi |-> 0, many |-> TRUE]

Plus(cls) == [cls |-> cls, lo |-> 1, hi |-> 1, many |-> TRUE]

Lit(c) == Rep(Class(FALSE, {c}), 1, 1)

\* The pattern as re.compile(..., re.IGNORECASE) would build it.
pattern_ignorecase ==
    << Rep(Digit, 1, 2), Lit("/"), Rep(Digit, 1, 2), Lit("/"), Rep(Digit, 2, 4),
       Lit(","), Star(Space),
       Rep(Digit, 1, 2), Lit(":"), Rep(Digit, 2, 2), Rep(Space, 0, 1),
       Rep(Class(FALSE, {"a", "p", "A", "P"}), 1, 1),
       Rep(Class(FALSE, {"m", "M"}), 1, 1),
       Star(Space), Lit("-"), Star(Space),
       Plus(Class(TRUE, {":"})),
       Lit(":"), Star(Space),
       Star(Class(TRUE, {"\n"})) >>

\* The pattern with (.+) for the sender in place of ([^:]+).
pattern_any_sender ==
    << Rep(Digit, 1, 2), Lit("/"), Rep(Digit, 1, 2), Lit("/"), Rep(Digit, 2, 4),
       Lit(","), Star(Space),
       Rep(Digit, 1, 2), Lit(":"), Rep(Digit, 2, 2), Rep(Space, 0, 1),
       Rep(Class(FALSE, {"a", "p"}), 1, 1), Lit("m"),
       Star(Space), Lit("-"), Star(Space),
       Plus(Class(TRUE, {"\n"})),
       Lit(":"), Star(Space),
       Star(Class(TRUE, {"\n"})) >>

pattern ==
    << Rep(Digit, 1, 2), Lit("/"), Rep(Digit, 1, 2), Lit("/"), Rep(Digit, 2, 4),
       Lit(","), Star(Space),
       Rep(Digit, 1, 2), Lit(":"), Rep(Digit, 2, 2), Rep(Space, 0, 1),
       Rep(Class(FALSE, {"a", "p"}), 1, 1), Lit("m"),
       Star(Space), Lit("-"), Star(Space),
       Plus(Class(TRUE, {":"})),
       Lit(":"), Star(Space),
       Star(Class(TRUE, {"\n"})) >>

\* The result of a failed match.
NoMatch == <<-1>>

\* $ : the end of the string, or just before a newline that ends it.
AtEnd(s, p) == p = Len(s) + 1 \/ (p = Len(s) /\ At(s, p) = "\n")

RECURSIVE MatchFrom(_, _, _, _), Backtrack(_, _, _, _, _)

\* The match of atoms k.. of pat against s[p..], as the number of characters
\* each atom takes, or NoMatch.  A greedy atom first takes all the characters
\* it can, and gives them back one at a time while the rest of the pattern
\* does not match.
MatchFrom(pat, s, p, k) ==
    IF k > Len(pat)
    THEN (IF AtEnd(s, p) THEN <<>> ELSE NoMatch)
    ELSE LET a == pat[k]
         IN  Backtrack(pat, s, p, k,
                       Run(s, p, a.cls, IF a.many THEN Len(s) ELSE a.hi))

\* Atom k taking n characters of s[p..], or fewer if the rest fails with n.
Backtrack(pat, s, p, k, n) ==
    IF n < pat[k].lo THEN NoMatch
    ELSE LET rest == MatchFrom(pat, s, p + n, k + 1)
         IN  IF rest # NoMatch THEN <<n>> \o rest
             ELSE Backtrack(pat, s, p, k, n - 1)

\* pattern.match(line): the match object, or NoMatch for None.
pattern_match(s) == MatchFrom(pattern, s, 1, 1)

RECURSIVE Sum(_, _, _)
\* m[from] + ... + m[to]
Sum(m, from, to) == IF from > to THEN 0 ELSE m[from] + Sum(m, from + 1, to)

\* The substring of s that atoms from..to took in match m.
Span(s, m, from, to) ==
    SubSeq(s, Sum(m, 1, from - 1) + 1, Sum(m, 1, to))

\* match.groups(), as the row [date, time, sender, message].
groups(s, m) ==
    [date    |-> Span(s, m, 1, 5),
     time    |-> Span(s, m, 8, 13),
     sender  |-> Span(s, m, 17, 17),
     message |-> Span(s, m, 20, 20)]

-----------------------------------------------------------------------------
\* df["date"] = pd.to_datetime(df["date"], errors="coerce", dayfirst=True)
\*
\* A cell of the date column is a str before the conversion and a datetime or
\* NaT after it.  Every date text reaching the conversion was captured by
\* group 1 of the pattern, so it has the form D{1,2}/D{1,2}/D{2,4}.

Str(text) == [kind |-> "str", str |-> text]

Datetime(y, m, d) == [kind |-> "datetime", year |-> y, month |-> m, day |-> d]

NaT == [kind |-> "NaT"]

\* int() of one decimal digit
DigitVal(c) == CHOOSE v \in 0..9 : SubSeq("0123456789", v + 1, v + 1) = c

RECURSIVE ToInt(_)
\* int() of a non-empty string of decimal digits
ToInt(s) ==
    IF Len(s) = 0 THEN 0
    ELSE 10 * ToInt(SubSeq(s, 1, Len(s) - 1)) + DigitVal(At(s, Len(s)))

\* The three numeric tokens of a date text, in the order written.
DateTokens(text) ==
    LET n1 == Run(text, 1, Digit, Len(text))
        n2 == Run(text, n1 + 2, Digit, Len(text))
    IN  <<SubSeq(text, 1, n1),
          SubSeq(text, n1 + 2, n1 + 1 + n2),
          SubSeq(text, n1 + n2 + 3, Len(text))>>

\* The year a year token stands for: two digits are expanded to a century.
YearOf(tok) ==
    IF Len(tok) = 2
    THEN (IF ToInt(tok) < 69 THEN 2000 + ToInt(tok) ELSE 1900 + ToInt(tok))
    ELSE ToInt(tok)

IsLeap(y) == (y % 4 = 0 /\ y % 100 # 0) \/ y % 400 = 0

DaysInMonth(y, m) ==
    IF m = 2 THEN (IF IsLeap(y) THEN 29 ELSE 28)
    ELSE IF m \in {4, 6, 9, 11} THEN 30 ELSE 31

\* A calendar date that a nanosecond Timestamp can hold (1677-09-21 to
\* 2262-04-11; the two boundary years are left out).
IsDate(y, m, d) ==
    /\ y >= 1678 /\ y <= 2261
    /\ m >= 1 /\ m <= 12
    /\ d >= 1 /\ d <= DaysInMonth(y, m)

\* The date text read day first, as dayfirst=True asks.
DayFirstOK(text) ==
    LET t == DateTokens(text) IN IsDate(YearOf(t[3]), ToInt(t[2]), ToInt(t[1]))

\* The date text read month first, the parser's fallback when the second
\* number cannot be a month.
MonthFirstOK(text) ==
    LET t == DateTokens(text) IN IsDate(YearOf(t[3]), ToInt(t[1]), ToInt(t[2]))

\* No reading of the text is a date: the conversion gives NaT in every build.
Unparseable(text) == ~DayFirstOK(text) /\ ~MonthFirstOK(text)

\* Every reading of the text is a date and the text has the layout of the
\* first cell: the conversion gives a datetime in every build.
SurelyParseable(text, first) ==
    /\ DayFirstOK(text) /\ MonthFirstOK(text)
    /\ Len(DateTokens(text)[3]) = Len(DateTokens(first)[3])

\* What the conversion can give for one cell.  first is the text of the first
\* cell of the column.  Builds of pandas differ on a cell whose layout is not
\* the one of the first cell (a build that infers one format for the whole
\* column from its first cell coerces such a cell to NaT, a build that parses
\* cell by cell does not), so the result for such a cell is any of the
\* outcomes.  The first cell itself is converted whenever one reading of it
\* is a date, day first if that reading is a date; when the first cell is no
\* date, no format is inferred and every cell is parsed on its own.
to_datetime(text, first, isFirst) ==
    LET t == DateTokens(text)
        y == YearOf(t[3])
        a == ToInt(t[1])
        b == ToInt(t[2])
    IN  (IF DayFirstOK(text) THEN {Datetime(y, b, a)} ELSE {})
        \cup (IF MonthFirstOK(text) /\ (~isFirst \/ ~DayFirstOK(text))
              THEN {Datetime(y, a, b)} ELSE {})
        \cup (IF Unparseable(text)
                 \/ (~isFirst /\ ~Unparseable(first)
                               /\ ~SurelyParseable(text, first))
              THEN {NaT} ELSE {})

-----------------------------------------------------------------------------
\* chat_data = uploaded_file.readlines(): the lines of the uploaded file, as
\* bytes, each with its line ending.  utf8 says whether the bytes decode as
\* UTF-8; text is the decoded text (for bytes that do not decode, the bytes
\* with "?" standing for each byte that is not ASCII).

Line(t) == [utf8 |-> TRUE, text |-> t]

Bytes(t) == [utf8 |-> FALSE, text |-> t]

RawLines ==
    { Line("1/1/24, 10:00 am - Bob: Hello\n"),
      Line("How are you?\n"),
      Line("1/1/24, 10:01 am - Amy: Good!\n"),
      Line("1/1/24, 10:00 am - Bob: Meeting at 10:30\n"),
      Line("32/13/9999, 9:42 pm - Asha : re: plan\n"),
      Line("5/12/2023,9:42pm-\t:  ok  \r\n"),
      Line("12/5/23, 9:42 PM - Asha: night study\n"),
      Line("12/5/23, 9:42 Pm - Asha: x\n"),
      Line("12/5/23, 21:42 - Asha: late\n"),
      Line("  x 1/1/24, 10:00 am - Bob: mid\n"),
      Line("12/25/23, 9:42 pm - Raj: xmas\n"),
      Line("\n"),
      Bytes("caf?\n"),
      Bytes("1/1/24, 10:00 am - Jos?: Hola\n") }

\* The sequences over S of length at most n.
SeqUpTo(S, n) == UNION { [1..k -> S] : k \in 0..n }

Init ==
    /\ chat_data \in SeqUpTo(RawLines, MaxLines)
    /\ i = 0
    /\ pc = "loop"
    /\ messages = <<>>
    /\ df = <<>>

-----------------------------------------------------------------------------
\* for line in chat_data: ...   (i lines have been consumed)

\* line = line.decode("utf-8").strip(), for each line the file can hold
\* (tabulated so that each line is stripped once)
stripped == [raw \in RawLines |-> Strip(raw.text)]

\* match = pattern.match(line), for each line the file can hold
match == [raw \in RawLines |-> pattern_match(stripped[raw])]

InLoop == pc = "loop" /\ i < Len(chat_data)

\* The header branch, were it to skip a header whose date is no calendar date
\* instead of leaving that to the post-pass.
HeaderLine_skip_bad_date ==
    /\ InLoop
    /\ LET raw == chat_data[i + 1]
       IN  /\ raw.utf8
           /\ match[raw] # NoMatch
           /\ messages' =
                 IF Unparseable(groups(stripped[raw], match[raw]).date)
                 THEN messages
                 ELSE Append(messages, groups(stripped[raw], match[raw]))
    /\ i' = i + 1
    /\ UNCHANGED <<chat_data, pc, df>>

\* if match: messages.append([date, time, sender, message])
HeaderLine ==
    /\ InLoop
    /\ LET raw == chat_data[i + 1]
       IN  /\ raw.utf8
           /\ match[raw] # NoMatch
           /\ messages' = Append(messages, groups(stripped[raw], match[raw]))
    /\ i' = i + 1
    /\ UNCHANGED <<chat_data, pc, df>>

\* The continuation branch with = in place of += .
ContinuationLine_overwrite ==
    /\ InLoop
    /\ LET raw == chat_data[i + 1]
       IN  /\ raw.utf8
           /\ match[raw] = NoMatch
           /\ messages # <<>>
           /\ messages' = [messages EXCEPT ![Len(messages)].message =
                                        " " \o Strip(stripped[raw])]
    /\ i' = i + 1
    /\ UNCHANGED <<chat_data, pc, df>>

\* elif messages: messages[-1][3] += " " + line.strip()
ContinuationLine ==
    /\ InLoop
    /\ LET raw == chat_data[i + 1]
       IN  /\ raw.utf8
           /\ match[raw] = NoMatch
           /\ messages # <<>>
           /\ messages' = [messages EXCEPT ![Len(messages)].message =
                                        @ \o " " \o Strip(stripped[raw])]
    /\ i' = i + 1
    /\ UNCHANGED <<chat_data, pc, df>>

\* The loop with an else branch that keeps a line no record can take.
DiscardLine_kept ==
    /\ InLoop
    /\ LET raw == chat_data[i + 1]
       IN  /\ raw.utf8
           /\ match[raw] = NoMatch
           /\ messages = <<>>
           /\ messages' = << [date |-> "", time |-> "", sender |-> "",
                              message |-> stripped[raw]] >>
    /\ i' = i + 1
    /\ UNCHANGED <<chat_data, pc, df>>

\* neither branch is taken: the line is dropped
DiscardLine ==
    /\ InLoop
    /\ LET raw == chat_data[i + 1]
       IN  /\ raw.utf8
           /\ match[raw] = NoMatch
           /\ messages = <<>>
    /\ i' = i + 1
    /\ UNCHANGED <<chat_data, pc, messages, df>>

\* decode raises UnicodeDecodeError, the bare except keeps the line as bytes,
\* and pattern.match of a str pattern on bytes raises TypeError, which nothing
\* catches: the script ends there.
DecodeFallback ==
    /\ InLoop
    /\ ~chat_data[i + 1].utf8
    /\ pc' = "TypeError"
    /\ UNCHANGED <<chat_data, i, messages, df>>

\* df = pd.DataFrame(messages, columns=["date", "time", "sender", "message"])
DataFrame ==
    /\ pc = "loop"
    /\ i = Len(chat_data)
    /\ df' = [k \in 1..Len(messages) |->
                [messages[k] EXCEPT !.date = Str(messages[k].date)]]
    /\ pc' = "to_datetime"
    /\ UNCHANGED <<chat_data, i, messages>>

RECURSIVE Columns(_, _)
\* The columns the conversion can give for the first k cells of the date
\* column of frame.
Columns(frame, k) ==
    IF k = 0 THEN {<<>>}
    ELSE { Append(col, cell) :
             col \in Columns(frame, k - 1),
             cell \in to_datetime(frame[k].date.str, frame[1].date.str, k = 1) }

\* df["date"] = pd.to_datetime(df["date"], errors="coerce", dayfirst=True)
ToDatetime ==
    /\ pc = "to_datetime"
    /\ \E col \in Columns(df, Len(df)) :
          df' = [k \in 1..Len(df) |-> [df[k] EXCEPT !.date = col[k]]]
    /\ pc' = "dropna"
    /\ UNCHANGED <<chat_data, i, messages>>

\* dropna without inplace=True: the frame is left as it is.
DropNa_not_inplace ==
    /\ pc = "dropna"
    /\ df' = df
    /\ pc' = "done"
    /\ UNCHANGED <<chat_data, i, messages>>

\* df.dropna(subset=["date"], inplace=True)
DropNa ==
    /\ pc = "dropna"
    /\ df' = SelectSeq(df, LAMBDA row : row.date # NaT)
    /\ pc' = "done"
    /\ UNCHANGED <<chat_data, i, messages>>

Next ==
    \/ HeaderLine
    \/ ContinuationLine
    \/ DiscardLine
    \/ DecodeFallback
    \/ DataFrame
    \/ ToDatetime
    \/ DropNa

Spec == Init /\ [][Next]_vars

-----------------------------------------------------------------------------
\* Vocabulary of the properties.  Line k of the file is chat_data[k]; the loop
\* has consumed lines 1..i.

\* The trimmed text of line k.
T(k) == stripped[chat_data[k]]

\* Line k has the header shape.
Hdr(k) == match[chat_data[k]] # NoMatch

\* The four fields captured from each line of header shape the file can hold.
captured ==
    [raw \in { r \in RawLines : match[r] # NoMatch } |->
        groups(stripped[raw], match[raw])]

\* The four fields captured from header line k.
Captured(k) == captured[chat_data[k]]

\* The header lines among lines from..to.
HdrSet(from, to) == { k \in from..to : Hdr(k) }

\* The j-th smallest member of the set S of line numbers.
Nth(S, j) == CHOOSE k \in S : Cardinality({ m \in S : m <= k }) = j

\* The first header line after line k among lines ..to, or to + 1.
NextHdr(k, to) ==
    IF HdrSet(k + 1, to) = {} THEN to + 1 ELSE Nth(HdrSet(k + 1, to), 1)

RECURSIVE Joined(_, _)
\* " " + T(from) + " " + ... + " " + T(to)
Joined(from, to) ==
    IF from > to THEN "" ELSE " " \o T(from) \o Joined(from + 1, to)

\* The message of header line k with its own continuation lines among ..to.
OwnMessage(k, to) == Captured(k).message \o Joined(k + 1, NextHdr(k, to) - 1)

\* The records that lines from..to stand for, read on their own.
Expected(from, to) ==
    [ j \in 1..Cardinality(HdrSet(from, to)) |->
        LET k == Nth(HdrSet(from, to), j)
        IN  [Captured(k) EXCEPT !.message = OwnMessage(k, to)] ]

IsPrefix(a, b) == Len(a) <= Len(b) /\ SubSeq(b, 1, Len(a)) = a

\* Position of the first character of class cls in s, or Len(s) + 1.
Find(s, cls) == Run(s, 1, Class(~cls.neg, cls.chars), Len(s)) + 1

HasColon(s) == Find(s, Class(FALSE, {":"})) <= Len(s)

TypeOK ==
    /\ i \in 0..Len(chat_data)
    /\ pc \in {"loop", "to_datetime", "dropna", "done", "TypeError"}
    /\ Len(messages) <= i
    /\ pc \in {"loop", "TypeError"} => df = <<>>

\* What the loop has built after i lines.
LoopInvariant == messages = Expected(1, i)

RECURSIVE Squeeze(_)
\* s without its whitespace characters.
Squeeze(s) ==
    IF Len(s) = 0 THEN ""
    ELSE (IF InClass(At(s, 1), Space) THEN "" ELSE At(s, 1))
            \o Squeeze(SubSeq(s, 2, Len(s)))

\* The script is past the loop and has a frame.
PostPass == pc \in {"to_datetime", "dropna", "done"}

\* The rows of frame are, in order, the records of recs numbered by keep, with
\* time, sender and message as they are in recs.
RowsOf(frame, recs, keep) ==
    /\ Len(frame) = Cardinality(keep)
    /\ \A j \in 1..Len(frame) :
          LET r == recs[Nth(keep, j)]
          IN  /\ frame[j].time = r.time
              /\ frame[j].sender = r.sender
              /\ frame[j].message = r.message

-----------------------------------------------------------------------------
\* C1: for any input, every line that does not match the header pattern and
\* arrives when a record exists is appended, as one space and the trimmed
\* line, to the message of the latest record and to no other: once the loop
\* is over, each record's message is its header's message followed by all the
\* lines up to the next header line, in order.
C1_ContinuationsAppended ==
    pc # "loop" =>
        \A j \in 1..Len(messages) :
            messages[j].message =
                OwnMessage(Nth(HdrSet(1, Len(chat_data)), j), Len(chat_data))

\* C2: for any input, the loop produces exactly one record per line that
\* matches the header pattern, the j-th record from the j-th matching line.
C2_OneRecordPerHeader ==
    pc # "loop" =>
        /\ Len(messages) = Cardinality(HdrSet(1, Len(chat_data)))
        /\ \A j \in 1..Len(messages) :
              LET c == Captured(Nth(HdrSet(1, Len(chat_data)), j))
              IN  /\ messages[j].date = c.date
                  /\ messages[j].time = c.time
                  /\ messages[j].sender = c.sender

\* C4: a line that cannot be decoded as UTF-8 never aborts the parse: no
\* exception leaves the loop.
C4_NoExceptionPropagates == pc # "TypeError"

\* C6: the record of a header line with no continuation line has exactly the
\* captured fields, its sender trimmed on both sides and not empty, its
\* message trimmed on both sides.
C6_FieldsTrimmed ==
    (i >= 1 /\ Hdr(i)) =>
        LET r == messages[Len(messages)]
        IN  /\ r = Captured(i)
            /\ r.sender = Strip(r.sender)
            /\ r.sender # ""
            /\ r.message = Strip(r.message)

-----------------------------------------------------------------------------
\* The header shape with the time written as section 4.1 of the specification
\* has it: D{1,2}:DD, then optionally one whitespace character and an am/pm
\* marker in either case.
header_shape ==
    [pattern EXCEPT ![12] = Rep(Class(FALSE, {"a", "p", "A", "P"}), 0, 1),
                    ![13] = Rep(Class(FALSE, {"m", "M"}), 0, 1)]

\* The match of the header shape on each line the file can hold.
shape == [raw \in RawLines |-> MatchFrom(header_shape, Strip(raw.text), 1, 1)]

\* The time token of a line of header shape.
TimeToken(raw) == groups(Strip(raw.text), shape[raw]).time

\* The time token ends in a lowercase marker.
LowerMarker(t) ==
    Len(t) >= 2 /\ SubSeq(t, Len(t) - 1, Len(t)) \in {"am", "pm"}

\* C5 as stated: a decoded line of header shape starts a new record whatever
\* the case of its am/pm marker, and also when it has no marker.
C5_AnyMarkerAccepted ==
    [][ (InLoop /\ chat_data[i + 1].utf8
                /\ shape[chat_data[i + 1]] # NoMatch)
            => Len(messages') = Len(messages) + 1 ]_vars

\* C5 amended: the recognizer is case-sensitive and requires the marker.  A
\* line of header shape starts a new record only if its time token ends in
\* lowercase "am" or "pm", and every decoded line of header shape whose token
\* does, starts one; a line written with PM, Pm or no marker leaves the number
\* of records as it is.
C5_LowercaseMarkerOnly ==
    [][ (InLoop /\ shape[chat_data[i + 1]] # NoMatch)
            => LET raw == chat_data[i + 1]
               IN  /\ Len(messages') > Len(messages)
                        => LowerMarker(TimeToken(raw))
                   /\ (raw.utf8 /\ LowerMarker(TimeToken(raw)))
                        => messages' = Append(messages,
                                          groups(Strip(raw.text), shape[raw]))
                   /\ ~LowerMarker(TimeToken(raw))
                        => Len(messages') = Len(messages) ]_vars

\* A line with an upper-case marker and a line with no marker have been
\* consumed after a header line with a lowercase one: one record.
C5_Witness ==
    /\ i = 3
    /\ T(1) = "1/1/24, 10:00 am - Bob: Hello"
    /\ T(2) = "12/5/23, 9:42 PM - Asha: night study"
    /\ T(3) = "12/5/23, 21:42 - Asha: late"
    /\ Len(messages) = 1

-----------------------------------------------------------------------------
C7_PreambleDiscarded ==
    LET fromFirstHeader == Expected(NextHdr(0, i), i)
    IN  /\ messages = fromFirstHeader
        /\ HdrSet(1, i) = {} => messages = <<>>
        /\ PostPass => \E keep \in SUBSET (1..Len(fromFirstHeader)) :
                          RowsOf(df, fromFirstHeader, keep)

\* A preamble line was dropped, a header line followed, the frame is built.
C7_Witness ==
    /\ pc = "done"
    /\ i = 2
    /\ T(1) = "How are you?"
    /\ Hdr(2)
    /\ Len(df) = 1

\* C8: the sender ends at the first colon after the separator: it holds no
\* colon, the line is date, time, "-", sender, ":" and the rest up to
\* whitespace, and the message is all of the rest, later colons included.
C8_FirstColonSplits ==
    (i >= 1 /\ Hdr(i)) =>
        LET r == messages[Len(messages)]
            t == T(i)
        IN  /\ ~HasColon(r.sender)
            /\ \E p \in 1..Len(t) :
                  /\ At(t, p) = ":"
                  /\ SubSeq(t, p - Len(r.sender), p - 1) = r.sender
                  /\ Squeeze(SubSeq(t, 1, p - Len(r.sender) - 1))
                        = Squeeze(r.date \o "," \o r.time \o "-")
                  /\ r.message = Strip(SubSeq(t, p + 1, Len(t)))

\* The example of the specification.
C8_Witness ==
    /\ i >= 1
    /\ T(i) = "1/1/24, 10:00 am - Bob: Meeting at 10:30"
    /\ messages[Len(messages)].sender = "Bob"
    /\ messages[Len(messages)].message = "Meeting at 10:30"

\* C9: a step never removes or reorders a record, never changes a record's
\* date, time or sender, and only ever extends its message; the post-pass
\* leaves the records alone and the rows of the frame carry the messages of
\* the records they come from.
C9_AppendOnly ==
    [][ /\ Len(messages') >= Len(messages)
        /\ \A k \in 1..Len(messages) :
              /\ messages'[k].date = messages[k].date
              /\ messages'[k].time = messages[k].time
              /\ messages'[k].sender = messages[k].sender
              /\ IsPrefix(messages[k].message, messages'[k].message)
        /\ pc' \in {"to_datetime", "dropna", "done"}
              => /\ messages' = messages
                 /\ \E keep \in SUBSET (1..Len(messages)) :
                       RowsOf(df', messages, keep) ]_vars

\* A record's message was extended by two lines and the record is in the frame.
C9_Witness ==
    /\ pc = "done"
    /\ i = 3
    /\ Hdr(1) /\ ~Hdr(2) /\ ~Hdr(3)
    /\ Len(df) = 1
    /\ df[1].message = Captured(1).message \o " " \o T(2) \o " " \o T(3)
    /\ T(2) # ""

\* C10: the continuation lines of a record dropped for its date are lost with
\* it: each row of the final frame carries the message of its own header line
\* followed by its own continuation lines and nothing else, and no row comes
\* from a header line whose date text is no calendar date.
C10_LostWithRecord ==
    pc = "done" =>
        \E keep \in SUBSET HdrSet(1, i) :
            /\ Len(df) = Cardinality(keep)
            /\ \A j \in 1..Len(df) :
                  LET k == Nth(keep, j)
                  IN  /\ df[j].sender = Captured(k).sender
                      /\ df[j].time = Captured(k).time
                      /\ df[j].message = Captured(k).message
                                \o Joined(k + 1, NextHdr(k, i) - 1)
            /\ \A k \in HdrSet(1, i) :
                  Unparseable(Captured(k).date) => k \notin keep

\* A surviving record, then a header line with a bad date, then a continuation
\* line: the frame holds the first record with its header message only.
C10_Witness ==
    /\ pc = "done"
    /\ i = 3
    /\ T(1) = "1/1/24, 10:00 am - Bob: Hello"
    /\ Hdr(2) /\ Unparseable(Captured(2).date)
    /\ T(3) = "How are you?"
    /\ Len(df) = 1
    /\ df[1].message = "Hello"

====
